---- MODULE Spec2Model ----
(***************************************************************************)
(* Model of examples/vision/ipynb/siamese_contrastive.ipynb:               *)
(*   make_pairs          - the pair sampler, one action per statement      *)
(*                         group of its body, random draws as choices;     *)
(*   loss / contrastive_loss and euclidean_distance - pure functions,      *)
(*                         applied by the actions of their own             *)
(*                         specifications to inputs drawn from small sets. *)
(* Python lists and numpy arrays are sequences; a Python index i is the    *)
(* position i + 1 of the sequence.                                         *)
(***************************************************************************)
EXTENDS Integers, Sequences, FiniteSets, TLC

VARIABLES
    \* make_pairs: arguments, locals, control point, outcome
    x, y, num_classes, digit_indices, pairs, labels, idx1, label1, label2,
    pc, exc, result,
    \* history of the idx2 chosen for each emitted pair (not program state)
    partners,
    \* the random stream: how draws are made, the draws so far, the read position
    mode, tape, tpos,
    \* the outcome of an earlier run on the same arguments and stream
    first,
    \* loss / contrastive_loss: the margin bound by loss(margin), the
    \* arguments of the last call of contrastive_loss and what it returned
    margin, y_true, y_pred, loss_value, lpc,
    \* euclidean_distance: the argument of the last call, its local
    \* sum_square and what it returned; the call before it
    vects, sum_square, dist, earlier, dpc,
    \* visualize: the arguments (to_show as passed, num_col, the lengths of
    \* pairs and of predictions, test), the locals to_show, num_row, axes and
    \* i, the number of pairs drawn so far, control point and exception
    to_show_arg, num_col, n_pairs, n_pred, test, to_show, num_row, axes, vi,
    plotted, vpc, vexc

mpVars == <<x, y, num_classes, digit_indices, pairs, labels, idx1, label1,
            label2, pc, exc, result, partners, mode, tape, tpos, first>>

lossVars == <<margin, y_true, y_pred, loss_value, lpc>>

distVars == <<vects, sum_square, dist, earlier, dpc>>

visVars == <<to_show_arg, num_col, n_pairs, n_pred, test, to_show, num_row,
             axes, vi, plotted, vpc, vexc>>

vars == <<mpVars, lossVars, distVars, visVars>>

----------------------------------------------------------------------------
(* Bounds of the model *)

\* largest number of samples handed to make_pairs
MaxN == 3

\* what an image can be: two images are enough to tell samples apart
Images == {"a", "b"}

\* labels of a dataset of n samples: -1 is the out-of-range label, and n
\* samples fill at most the classes 0..n-1
LabelsFor(n) == (0 - 1) .. (n - 1)

NoValue == "none"

----------------------------------------------------------------------------
(* Python and numpy primitives used by make_pairs *)

\* seq[i] for a Python index i >= 0
At(seq, i) == seq[i + 1]

\* max(y) of a non-empty sequence
PyMax(seq) == CHOOSE m \in {seq[k] : k \in 1..Len(seq)} :
                  \A k \in 1..Len(seq) : seq[k] <= m

\* np.where(y == i)[0]: the indices whose label is i, in increasing order
NpWhere(yy, i) ==
    LET idx == [k \in 1..Len(yy) |-> k - 1]
        Hit(k) == At(yy, k) = i
    IN  SelectSeq(idx, Hit)

\* range(n) as the positions of the list built over it (empty when n <= 0)
PyRange(n) == 1 .. (IF n > 0 THEN n ELSE 0)

\* Python list indexing: in range for -len <= i < len, IndexError otherwise
PyIndexOk(list, i) == (0 - Len(list)) <= i /\ i < Len(list)

PyGet(list, i) == IF i >= 0 THEN list[i + 1] ELSE list[Len(list) + i + 1]

----------------------------------------------------------------------------
(* The random stream.  random.choice(seq) is seq[_randbelow(len(seq))] and  *)
(* random.randint(a, b) is a + _randbelow(b - a + 1); _randbelow(n) is a    *)
(* function of the generator's state.  A "free" stream yields any value, a  *)
(* "record" stream yields any value and keeps it, a "replay" stream yields  *)
(* the kept values again (the generator re-seeded with the same seed).      *)

\* redraws of label2 a recorded run may make
MaxRedraw == 1

RandBelow(n) ==
    IF n <= 0 THEN {}
    ELSE IF mode = "replay"
         THEN (IF tpos < Len(tape) THEN {tape[tpos + 1] % n} ELSE {})
    ELSE 0 .. (n - 1)

\* the stream after _randbelow returned v
Consume(v) ==
    /\ mode' = mode
    /\ tape' = IF mode = "record" THEN Append(tape, v) ELSE tape
    /\ tpos' = IF mode = "replay" THEN tpos + 1 ELSE tpos

StreamUnchanged == UNCHANGED <<mode, tape, tpos>>

\* a choice made by a generator the seed does not govern (numpy's
\* np.random.choice in place of random.choice)
RandomChoiceUnseeded(seq) == 0 .. (Len(seq) - 1)

\* the positions random.choice(seq) can return the element of
RandomChoice(seq) == RandBelow(Len(seq))

\* a randint that returns its lower end whenever it returns
RandintLowEnd(a, b) == IF RandBelow(b - a + 1) = {} THEN {} ELSE {0}

\* the offsets random.randint(a, b) can add to a
Randint(a, b) == RandBelow(b - a + 1)

----------------------------------------------------------------------------
(* make_pairs(x, y) *)

\* digit_indices = [np.where(y == i)[0] for i in range(num_classes)]
DigitIndices(yy, k) == [i \in PyRange(k) |-> NpWhere(yy, i - 1)]

\* contrastive_loss and euclidean_distance are not called while make_pairs
\* runs, and conversely
LossIdle ==
    /\ margin = NoValue
    /\ y_true = <<>>
    /\ y_pred = <<>>
    /\ loss_value = NoValue
    /\ lpc = "unbound"

DistIdle ==
    /\ vects = <<>>
    /\ sum_square = <<>>
    /\ dist = <<>>
    /\ earlier = NoValue
    /\ dpc = "uncalled"

VisIdle ==
    /\ to_show_arg = 0
    /\ num_col = 0
    /\ n_pairs = 0
    /\ n_pred = 0
    /\ test = FALSE
    /\ to_show = 0
    /\ num_row = 0
    /\ axes = NoValue
    /\ vi = 0
    /\ plotted = 0
    /\ vpc = "uncalled"
    /\ vexc = NoValue

OthersIdle == UNCHANGED <<lossVars, distVars, visVars>>

Inputs ==
    UNION {[1..n -> Images] \X [1..n -> LabelsFor(n)] : n \in 0..MaxN}

InitRun(xx, yy) ==
    /\ x = xx
    /\ y = yy
    /\ num_classes = 0
    /\ digit_indices = <<>>
    /\ pairs = <<>>
    /\ labels = <<>>
    /\ partners = <<>>
    /\ idx1 = 0
    /\ label1 = 0
    /\ label2 = 0
    /\ pc = "start"
    /\ exc = NoValue
    /\ result = NoValue

Init ==
    /\ \E in \in Inputs : InitRun(in[1], in[2])
    /\ mode = "free"
    /\ tape = <<>>
    /\ tpos = 0
    /\ first = NoValue
    /\ LossIdle
    /\ DistIdle
    /\ VisIdle

\* an exception leaves make_pairs: nothing is returned
Raise(e) ==
    /\ pc' = "raised"
    /\ exc' = e
    /\ UNCHANGED <<x, y, num_classes, digit_indices, pairs, labels, partners,
                   idx1, label1, label2, result, first>>
    /\ StreamUnchanged

\* num_classes = max(y) + 1 on an empty y: max() raises ValueError
SetupRaise ==
    /\ pc = "start"
    /\ OthersIdle
    /\ Len(y) = 0
    /\ Raise("ValueError")

\* num_classes, digit_indices, pairs = [], labels = [], and the loop is entered
Setup ==
    /\ pc = "start"
    /\ OthersIdle
    /\ Len(y) > 0
    /\ num_classes' = PyMax(y) + 1
    /\ digit_indices' = DigitIndices(y, PyMax(y) + 1)
    /\ pairs' = <<>>
    /\ labels' = <<>>
    /\ idx1' = 0
    /\ pc' = "for"
    /\ UNCHANGED <<x, y, partners, label1, label2, exc, result, first>>
    /\ StreamUnchanged

\* the list index digit_indices[label1] or random.choice on an empty group
\* raises IndexError
MatchingFails(l1) ==
    IF PyIndexOk(digit_indices, l1)
    THEN Len(PyGet(digit_indices, l1)) = 0
    ELSE TRUE

\* the pair with its elements in the wrong order: [x2, x1]
PairSwapped(i, j) == <<At(x, j), At(x, i)>>

\* the pair appended for anchor i with partner j
Pair(i, j) == <<At(x, i), At(x, j)>>

\* add a matching example: lines "x1 = x[idx1]" to "labels += [1]"
AddMatching ==
    /\ pc = "for"
    /\ OthersIdle
    /\ idx1 < Len(x)
    /\ ~MatchingFails(At(y, idx1))
    /\ LET group == PyGet(digit_indices, At(y, idx1))
       IN  \E v \in RandomChoice(group) :
               /\ pairs' = Append(pairs, Pair(idx1, At(group, v)))
               /\ partners' = Append(partners, At(group, v))
               /\ Consume(v)
    /\ labels' = Append(labels, 1)
    /\ label1' = At(y, idx1)
    /\ pc' = "nonmatch"
    /\ UNCHANGED <<x, y, num_classes, digit_indices, idx1, label2, exc,
                   result, first>>

AddMatchingRaise ==
    /\ pc = "for"
    /\ OthersIdle
    /\ idx1 < Len(x)
    /\ MatchingFails(At(y, idx1))
    /\ Raise("IndexError")

\* label2 = random.randint(0, num_classes - 1); randint raises ValueError on
\* an empty range
DrawLabel2 ==
    /\ pc = "nonmatch"
    /\ OthersIdle
    /\ IF num_classes - 1 < 0
       THEN Raise("ValueError")
       ELSE /\ \E v \in Randint(0, num_classes - 1) :
                   /\ label2' = 0 + v
                   /\ Consume(v)
            /\ pc' = "while"
            /\ UNCHANGED <<x, y, num_classes, digit_indices, pairs, labels,
                           partners, idx1, label1, exc, result, first>>

\* a recorded stream is kept finite: it holds at most MaxRedraw redraws,
\* made for the first anchor, after the two draws that precede them
RedrawInBounds ==
    mode = "record" => (idx1 = 0 /\ Len(tape) < 2 + MaxRedraw)

\* while label2 == label1: label2 = random.randint(0, num_classes - 1)
Redraw ==
    /\ pc = "while"
    /\ OthersIdle
    /\ label2 = label1
    /\ RedrawInBounds
    /\ \E v \in Randint(0, num_classes - 1) :
           /\ label2' = 0 + v
           /\ Consume(v)
    /\ UNCHANGED <<x, y, num_classes, digit_indices, pairs, labels, partners,
                   idx1, label1, pc, exc, result, first>>

\* add a non-matching example: "idx2 = random.choice(digit_indices[label2])"
\* to "labels += [0]", and the loop's next idx1 (idx1 counts the anchors done:
\* it is len(x) when range(len(x)) is exhausted)
AddNonMatching ==
    /\ pc = "while"
    /\ OthersIdle
    /\ label2 # label1
    /\ Len(PyGet(digit_indices, label2)) > 0
    /\ LET group == PyGet(digit_indices, label2)
       IN  \E v \in RandomChoice(group) :
               /\ pairs' = Append(pairs, Pair(idx1, At(group, v)))
               /\ partners' = Append(partners, At(group, v))
               /\ Consume(v)
    /\ labels' = Append(labels, 0)
    /\ idx1' = idx1 + 1
    /\ pc' = "for"
    /\ UNCHANGED <<x, y, num_classes, digit_indices, label1, label2, exc,
                   result, first>>

\* random.choice on the empty group of label2 raises IndexError
AddNonMatchingRaise ==
    /\ pc = "while"
    /\ OthersIdle
    /\ label2 # label1
    /\ Len(PyGet(digit_indices, label2)) = 0
    /\ Raise("IndexError")

\* return np.array(pairs), np.array(labels).astype("float32")
Return ==
    /\ pc = "for"
    /\ OthersIdle
    /\ idx1 >= Len(x)
    /\ result' = [pairs |-> pairs, labels |-> labels]
    /\ pc' = "returned"
    /\ UNCHANGED <<x, y, num_classes, digit_indices, pairs, labels, partners,
                   idx1, label1, label2, exc, first>>
    /\ StreamUnchanged

Next ==
    \/ SetupRaise
    \/ Setup
    \/ AddMatching
    \/ AddMatchingRaise
    \/ DrawLabel2
    \/ Redraw
    \/ AddNonMatching
    \/ AddNonMatchingRaise
    \/ Return

Spec == Init /\ [][Next]_vars

----------------------------------------------------------------------------
(* Vocabulary of the properties of make_pairs *)

\* K of the input: max label + 1
K == PyMax(y) + 1

\* every label lies in 0..K-1
LabelsInRange == \A k \in 1..Len(y) : 0 <= y[k] /\ y[k] < K

\* some class of 0..K-1 has no sample
SomeClassEmpty == \E c \in 0..(K - 1) : \A k \in 1..Len(y) : y[k] # c

\* the labels cover K >= 2 classes 0..K-1 and no class is empty
ValidInput == Len(y) > 0 /\ K >= 2 /\ LabelsInRange /\ ~SomeClassEmpty

\* the anchor of the k-th emitted pair (k from 1): pairs 2i+1 and 2i+2 of
\* the sequence are positions 2i and 2i+1 of the Python list
AnchorOf(k) == (k - 1) \div 2

----------------------------------------------------------------------------
(* C1: on a valid input (K >= 2 classes 0..K-1, none empty) make_pairs does *)
(* not raise, and what it returns has exactly 2N pairs and 2N labels; for   *)
(* every anchor i the entries at positions 2i and 2i+1 have x[i] as first   *)
(* element and carry the labels 1 and 0, in that order.                     *)
C1_TwoPairsPerAnchorInOrder ==
    ValidInput =>
        /\ pc # "raised"
        /\ pc = "returned" =>
              /\ Len(result.pairs) = 2 * Len(x)
              /\ Len(result.labels) = 2 * Len(x)
              /\ \A i \in 0..(Len(x) - 1) :
                     /\ At(result.pairs, 2 * i)[1] = At(x, i)
                     /\ At(result.pairs, 2 * i + 1)[1] = At(x, i)
                     /\ At(result.labels, 2 * i) = 1
                     /\ At(result.labels, 2 * i + 1) = 0

\* a valid input of MaxN samples with two images was paired and returned, and
\* the first anchor was matched with another sample of its class
C1_Witness ==
    /\ ValidInput
    /\ pc = "returned"
    /\ Len(x) = MaxN
    /\ x[1] # x[2]
    /\ partners[1] # 0

(* C2: every emitted pair labelled 1 has a partner of the anchor's class,   *)
(* and every emitted pair labelled 0 has a partner of another class,        *)
(* whatever the random choices were and whatever the input.                 *)
C2_LabelsMatchClasses ==
    \A k \in 1..Len(labels) :
        /\ labels[k] = 1 => At(y, partners[k]) = At(y, AnchorOf(k))
        /\ labels[k] = 0 => At(y, partners[k]) # At(y, AnchorOf(k))

(* C2 on the inputs whose labels all lie in 0..K-1: there the partner's     *)
(* class agrees with the pair's label.                                      *)
C2_InRange_LabelsMatchClasses ==
    (Len(y) > 0 /\ LabelsInRange) => C2_LabelsMatchClasses

(* C6: with fewer than 2 classes (K = max label + 1 < 2) make_pairs fails   *)
(* with an error: it neither returns nor runs on into the loop that         *)
(* resamples label2.                                                        *)
C6_FewerThanTwoClassesRejected ==
    (Len(y) > 0 /\ K < 2) => pc \notin {"while", "returned"}

(* C7: when a class of 0..K-1 has no sample, make_pairs fails on every run, *)
(* whatever the random choices: it never returns.  Stated on the inputs     *)
(* whose labels all lie in 0..K-1.                                          *)
C7_EmptyClassNeverReturns ==
    (Len(y) > 0 /\ LabelsInRange /\ SomeClassEmpty) => pc # "returned"

(* C8: a sample whose label lies outside 0..K-1 makes make_pairs fail: no   *)
(* pair is emitted with such a sample as its anchor.                        *)
C8_OutOfRangeLabelRejected ==
    \A k \in 1..Len(pairs) :
        0 <= At(y, AnchorOf(k)) /\ At(y, AnchorOf(k)) < K

----------------------------------------------------------------------------
(* Termination under a fair random source.  The interpreter keeps running   *)
(* the function (weak fairness of Next); a fair source does not withhold    *)
(* forever a label other than label1 from a loop that keeps resampling      *)
(* (strong fairness of the redraw that leaves the loop's condition false).  *)

RedrawOther == Redraw /\ label2' # label1

\* control never reads an image: the runs are those of Spec on the datasets
\* of one image
FairInit == Init /\ \A k \in 1..Len(x) : x[k] = "a"

FairSpec ==
    FairInit /\ [][Next]_vars /\ WF_vars(Next) /\ SF_vars(RedrawOther)

(* C9: on a valid input make_pairs terminates under a fair random source:   *)
(* the loop resampling label2 exits for every anchor and the function       *)
(* returns after all N anchors.                                             *)
C9_TerminatesUnderFairDraws ==
    /\ ValidInput ~> (pc = "returned")
    /\ [](pc = "returned" => idx1 = Len(x))

\* a valid dataset of MaxN samples was paired to the end
C9_Witness ==
    /\ ValidInput
    /\ pc = "returned"
    /\ Len(x) = MaxN
    /\ \A k \in 1..Len(x) : x[k] = "a"

----------------------------------------------------------------------------
(* Two runs on the same arguments with the same seed.  The first run draws  *)
(* freely and the stream keeps what it drew; Rerun calls make_pairs again   *)
(* on the same x and y with the generator re-seeded, so that the second run *)
(* receives the same sequence of draws.                                     *)

\* what a finished call left to its caller
Outcome == [pc |-> pc, exc |-> exc, result |-> result]

Finished == pc \in {"returned", "raised"}

\* the datasets of the seeded runs: images alternate, labels as in Inputs
SeededInit ==
    /\ \E in \in Inputs :
           /\ \A k \in 1..Len(in[1]) :
                  in[1][k] = (IF k % 2 = 1 THEN "a" ELSE "b")
           /\ InitRun(in[1], in[2])
    /\ mode = "record"
    /\ tape = <<>>
    /\ tpos = 0
    /\ first = NoValue
    /\ LossIdle
    /\ DistIdle
    /\ VisIdle

Rerun ==
    /\ Finished
    /\ OthersIdle
    /\ mode = "record"
    /\ first' = Outcome
    /\ mode' = "replay"
    /\ tpos' = 0
    /\ num_classes' = 0
    /\ digit_indices' = <<>>
    /\ pairs' = <<>>
    /\ labels' = <<>>
    /\ partners' = <<>>
    /\ idx1' = 0
    /\ label1' = 0
    /\ label2' = 0
    /\ pc' = "start"
    /\ exc' = NoValue
    /\ result' = NoValue
    /\ UNCHANGED <<x, y, tape>>

SeededNext ==
    \/ Next
    \/ Rerun

SeededSpec == SeededInit /\ [][SeededNext]_vars

(* C5: two runs of make_pairs on the same samples and labels that receive   *)
(* the same sequence of random draws end the same way, with identical pair  *)
(* sequences and identical label sequences, element by element.             *)
C5_SameSeedSameOutput ==
    (mode = "replay" /\ Finished) =>
        /\ Outcome = first
        /\ tpos = Len(tape)

\* a second run returned the pairs of MaxN anchors after a first run that
\* resampled label2 and matched the first anchor with another sample
C5_Witness ==
    /\ mode = "replay"
    /\ pc = "returned"
    /\ Len(x) = MaxN
    /\ Len(tape) > 3 * MaxN
    /\ partners[1] # 0
    /\ first.result.pairs[1] = <<"a", "a">>

----------------------------------------------------------------------------
(* loss(margin) and the contrastive_loss it returns.  Tensors are           *)
(* sequences of numbers; the numbers are integers, on which the float       *)
(* operations of the code are exact.                                        *)

\* largest batch handed to contrastive_loss
MaxBatch == 2

\* margins are 1..MaxMargin, predictions are -MaxPred..MaxPred
MaxMargin == 3

MaxPred == 3

\* tf.math.square, elementwise
Square(t) == [i \in DOMAIN t |-> t[i] * t[i]]

\* the clamp left out: margin - y_pred squared as it is
MaximumNoClamp(t, c) == t

\* tf.math.maximum(t, c) against a scalar, elementwise
Maximum(t, c) == [i \in DOMAIN t |-> IF t[i] >= c THEN t[i] ELSE c]

\* scalar - tensor, broadcast
ScalarMinus(c, t) == [i \in DOMAIN t |-> c - t[i]]

RECURSIVE SumTo(_, _)
SumTo(t, n) == IF n = 0 THEN 0 ELSE SumTo(t, n - 1) + t[n]

\* reduce_sum in place of reduce_mean
ReduceSumOnly(t) == [num |-> SumTo(t, Len(t)), den |-> 1]

\* tf.math.reduce_mean over all elements: the fraction sum / count
ReduceMean(t) == [num |-> SumTo(t, Len(t)), den |-> Len(t)]

\* (1 - y_true) * square_pred + (y_true) * margin_square, elementwise
Combine(yt, square_pred, margin_square) ==
    [i \in DOMAIN yt |->
        (1 - yt[i]) * square_pred[i] + yt[i] * margin_square[i]]

\* the body of contrastive_loss up to the argument of reduce_mean
PerPairLoss(yt, yp, m) ==
    LET square_pred == Square(yp)
        margin_square == Square(Maximum(ScalarMinus(m, yp), 0))
    IN  Combine(yt, square_pred, margin_square)

contrastive_loss(yt, yp, m) == ReduceMean(PerPairLoss(yt, yp, m))

Batches ==
    UNION {[1..n -> {0, 1}] \X [1..n -> (0 - MaxPred)..MaxPred] :
               n \in 1..MaxBatch}

MakePairsIdle ==
    /\ InitRun(<<>>, <<>>)
    /\ mode = "free"
    /\ tape = <<>>
    /\ tpos = 0
    /\ first = NoValue

LossInit == MakePairsIdle /\ LossIdle /\ DistIdle /\ VisIdle

\* loss(margin=m): the closure keeps the margin
Loss ==
    /\ lpc = "unbound"
    /\ \E m \in 1..MaxMargin : margin' = m
    /\ lpc' = "bound"
    /\ UNCHANGED <<y_true, y_pred, loss_value>>
    /\ UNCHANGED <<mpVars, distVars, visVars>>

\* contrastive_loss(y_true, y_pred) on a batch
ContrastiveLoss ==
    /\ lpc = "bound"
    /\ \E b \in Batches :
           /\ y_true' = b[1]
           /\ y_pred' = b[2]
           /\ loss_value' = contrastive_loss(b[1], b[2], margin)
    /\ lpc' = "evaluated"
    /\ UNCHANGED margin
    /\ UNCHANGED <<mpVars, distVars, visVars>>

LossNext ==
    \/ Loss
    \/ ContrastiveLoss

LossSpec == LossInit /\ [][LossNext]_vars

ClaimedPairLoss(yv, p, m) ==
    (1 - yv) * (p * p) + yv * ((IF m - p > 0 THEN m - p ELSE 0)
                               * (IF m - p > 0 THEN m - p ELSE 0))

RECURSIVE ClaimedSum(_, _, _, _)
ClaimedSum(yt, yp, m, n) ==
    IF n = 0 THEN 0
    ELSE ClaimedSum(yt, yp, m, n - 1) + ClaimedPairLoss(yt[n], yp[n], m)

\* what contrastive_loss returns on the one pair (yv, p) under margin 1, when
\* that is the last call
SinglePair(yv, p, v) ==
    (lpc = "evaluated" /\ margin = 1 /\ y_true = <<yv>> /\ y_pred = <<p>>)
        => (loss_value.num = v * loss_value.den)

(* C4: contrastive_loss returns the arithmetic mean over the batch of       *)
(* (1-y)*p^2 + y*max(m-p,0)^2; with m = 1 the single-pair values are        *)
(* loss(1,0) = 1, loss(1,1) = 0, loss(0,0) = 0 and loss(0,2) = 4.           *)
C4_BatchMeanAndScenario ==
    /\ lpc = "evaluated" =>
          /\ loss_value.den = Len(y_true)
          /\ loss_value.num = ClaimedSum(y_true, y_pred, margin, Len(y_true))
    /\ SinglePair(1, 0, 1)
    /\ SinglePair(1, 1, 0)
    /\ SinglePair(0, 0, 0)
    /\ SinglePair(0, 2, 4)

\* a batch of two pairs with different losses (1 and 4, mean 5/2) was
\* evaluated under margin 1
C4_Witness ==
    /\ lpc = "evaluated"
    /\ margin = 1
    /\ y_true = <<1, 0>>
    /\ y_pred = <<0, 2>>
    /\ loss_value = [num |-> 5, den |-> 2]

----------------------------------------------------------------------------
(* euclidean_distance(vects).  A tensor is a sequence of rows, a row a      *)
(* sequence of coordinates.  Coordinates are integers in units of 1e-4, so  *)
(* squares and sums of squares are integers in units of 1e-8, and the       *)
(* square root of n units of 1e-8 is its integer root in units of 1e-4.     *)

\* rows of a tensor and coordinates of a row
MaxRows == 1

MaxDim == 2

\* the coordinates: 0, 1e-4 and 4e-4; the squares of 1e-4 and of 3e-4 lie
\* below epsilon, the square of 4e-4 above it
Coords == {0, 1, 4}

\* tf.keras.backend.epsilon() = 1e-7, in units of 1e-8
Epsilon == 10

\* x - y, elementwise
Subtract(a, b) ==
    [r \in DOMAIN a |-> [c \in DOMAIN a[r] |-> a[r][c] - b[r][c]]]

\* tf.math.square on a tensor of rows
SquareRows(t) == [r \in DOMAIN t |-> Square(t[r])]

\* tf.math.reduce_sum(t, axis=1, keepdims=True): one sum per row, kept as a
\* row of one element
ReduceSumAxis1(t) == [r \in DOMAIN t |-> <<SumTo(t[r], Len(t[r]))>>]

\* the floor left out: sqrt(sum_square)
MaximumRowsNoFloor(t, c) == t

\* tf.math.maximum(t, c) on a tensor of rows
MaximumRows(t, c) == [r \in DOMAIN t |-> Maximum(t[r], c)]

\* the square root, rounded down to the resolution
ISqrt(n) == CHOOSE r \in 0..n : r * r <= n /\ n < (r + 1) * (r + 1)

\* tf.math.sqrt, elementwise
SqrtRows(t) == [r \in DOMAIN t |-> [c \in DOMAIN t[r] |-> ISqrt(t[r][c])]]

\* the second tensor forgotten: square(x) in place of square(x - y)
SumSquareOfFirst(v) == ReduceSumAxis1(SquareRows(v[1]))

\* sum_square = reduce_sum(square(x - y), axis=1, keepdims=True)
SumSquare(v) == ReduceSumAxis1(SquareRows(Subtract(v[1], v[2])))

\* return sqrt(maximum(sum_square, epsilon))
euclidean_distance(v) == SqrtRows(MaximumRows(SumSquare(v), Epsilon))

Tensors(rows, dim) == [1..rows -> [1..dim -> Coords]]

VectPairs ==
    UNION {Tensors(rows, dim) \X Tensors(rows, dim) :
               rows \in 1..MaxRows, dim \in 1..MaxDim}

DistInit == MakePairsIdle /\ LossIdle /\ DistIdle /\ VisIdle

\* euclidean_distance([x, y])
EuclideanDistance ==
    /\ dpc = "uncalled"
    /\ \E v \in VectPairs :
           /\ vects' = v
           /\ sum_square' = SumSquare(v)
           /\ dist' = euclidean_distance(v)
    /\ earlier' = NoValue
    /\ dpc' = "called"
    /\ UNCHANGED <<mpVars, lossVars, visVars>>

\* euclidean_distance([y, x]) after euclidean_distance([x, y])
EuclideanDistanceSwapped ==
    /\ dpc = "called"
    /\ earlier' = [vects |-> vects, dist |-> dist]
    /\ vects' = <<vects[2], vects[1]>>
    /\ sum_square' = SumSquare(<<vects[2], vects[1]>>)
    /\ dist' = euclidean_distance(<<vects[2], vects[1]>>)
    /\ dpc' = "swapped"
    /\ UNCHANGED <<mpVars, lossVars, visVars>>

DistNext ==
    \/ EuclideanDistance
    \/ EuclideanDistanceSwapped

DistSpec == DistInit /\ [][DistNext]_vars

(* C10: euclidean_distance is symmetric: the distance computed for (y, x)   *)
(* equals the distance computed for (x, y), for all tensors x and y of the  *)
(* same shape.                                                              *)
C10_DistanceSymmetric ==
    dpc = "swapped" =>
        /\ vects = <<earlier.vects[2], earlier.vects[1]>>
        /\ dist = earlier.dist

\* both orders were evaluated for two different vectors of MaxDim
\* coordinates whose differences have both signs, at a distance above the
\* floor
C10_Witness ==
    /\ dpc = "swapped"
    /\ earlier.vects[1][1] = <<0, 4>>
    /\ earlier.vects[2][1] = <<4, 0>>
    /\ dist[1][1] = 5

\* the sum over the first n coordinates of (a_i - b_i)^2, as the claim
\* writes it
RECURSIVE SquaredDifferences(_, _, _)
SquaredDifferences(a, b, n) ==
    IF n = 0 THEN 0
    ELSE SquaredDifferences(a, b, n - 1) + (a[n] - b[n]) * (a[n] - b[n])

\* d is the square root, at the resolution, of a radicand of n units
RootOf(d, n) == d >= 0 /\ d * d <= n /\ n < (d + 1) * (d + 1)

(* C11: euclidean_distance floors the sum of squared differences at epsilon *)
(* before the square root: for every row the distance returned is the root  *)
(* of max(sum((x_i - y_i)^2), epsilon), a radicand >= epsilon, so it is     *)
(* never 0, and d(x, x) = sqrt(epsilon).                                    *)
C11_FlooredAtEpsilon ==
    dpc # "uncalled" =>
        \A r \in 1..Len(vects[1]) :
            LET a == vects[1][r]
                b == vects[2][r]
                s == SquaredDifferences(a, b, Len(a))
                radicand == IF s >= Epsilon THEN s ELSE Epsilon
            IN  /\ sum_square[r] = <<s>>
                /\ radicand >= Epsilon
                /\ Len(dist[r]) = 1
                /\ RootOf(dist[r][1], radicand)
                /\ dist[r][1] > 0
                /\ a = b => RootOf(dist[r][1], Epsilon)

\* the distance of a vector of MaxDim coordinates from itself was computed
\* and is the root of epsilon (3 units of 1e-4, from 10 units of 1e-8)
C11_Witness ==
    /\ dpc = "called"
    /\ vects[1] = vects[2]
    /\ vects[1][1] = <<1, 4>>
    /\ sum_square[1][1] = 0
    /\ dist[1][1] = 3

\* two different vectors whose squared distance (9 units) lies below
\* epsilon were given the floored distance
C11_WitnessBelowFloor ==
    /\ dpc = "called"
    /\ vects[1][1] = <<1, 4>>
    /\ vects[2][1] = <<4, 4>>
    /\ sum_square[1][1] = 9
    /\ dist[1][1] = 3

----------------------------------------------------------------------------
(* visualize(pairs, labels, to_show, num_col, predictions, test).  Of pairs,*)
(* labels and predictions only the lengths matter to control: pairs and     *)
(* labels have n_pairs entries, predictions has n_pred entries, and         *)
(* n_pred = 0 stands for predictions=None.                                  *)

\* to_show is passed as 1..MaxShow, num_col as 1..MaxCol; pairs and
\* predictions hold up to MaxShow entries
MaxShow == 4

MaxCol == 3

\* what plt.subplots(nrows, ncols) returns as axes (squeeze=True): the Axes
\* itself for one subplot, a one-dimensional array for one row or one
\* column, a two-dimensional array otherwise
Subplots(nrows, ncols) ==
    IF nrows = 1 /\ ncols = 1 THEN [ndim |-> 0, shape |-> <<>>]
    ELSE IF nrows = 1 \/ ncols = 1
         THEN [ndim |-> 1, shape |-> <<nrows * ncols>>]
    ELSE [ndim |-> 2, shape |-> <<nrows, ncols>>]

\* num_row = to_show // num_col if to_show // num_col != 0 else 1
NumRow(ts, nc) == IF ts \div nc # 0 THEN ts \div nc ELSE 1

\* "ax = axes[i % num_col]" when num_row == 1, "ax = axes[i // num_col,
\* i % num_col]" otherwise: the exception the subscript raises, or NoValue
AxSubscript(i) ==
    IF num_row = 1
    THEN (IF axes.ndim = 0 THEN "TypeError"
          ELSE IF axes.ndim = 1 /\ i % num_col < axes.shape[1] THEN NoValue
          ELSE "IndexError")
    ELSE (IF axes.ndim = 2 /\ i \div num_col < axes.shape[1]
                           /\ i % num_col < axes.shape[2]
          THEN NoValue
          ELSE "IndexError")

\* the exception one pass of the loop body raises for index i, or NoValue:
\* the subscript of axes, then pairs[i] for imshow, then predictions[i] for
\* the title of a test plot
BodyException(i) ==
    IF AxSubscript(i) # NoValue THEN AxSubscript(i)
    ELSE IF i >= n_pairs THEN "IndexError"
    ELSE IF test /\ n_pred = 0 THEN "TypeError"
    ELSE IF test /\ i >= n_pred THEN "IndexError"
    ELSE NoValue

\* whether the pass for index i gets as far as ax.imshow(pairs[i])
Drawn(i) == AxSubscript(i) = NoValue /\ i < n_pairs

VisInit ==
    /\ MakePairsIdle
    /\ LossIdle
    /\ DistIdle
    /\ to_show_arg \in 1..MaxShow
    /\ num_col \in 1..MaxCol
    /\ n_pairs \in 0..MaxShow
    /\ test \in BOOLEAN
    /\ n_pred \in (IF test THEN 0..MaxShow ELSE {0})
    /\ to_show = to_show_arg
    /\ num_row = 0
    /\ axes = NoValue
    /\ vi = 0
    /\ plotted = 0
    /\ vpc = "start"
    /\ vexc = NoValue

\* num_row, to_show = num_row * num_col, fig, axes = plt.subplots(...)
Layout ==
    /\ vpc = "start"
    /\ num_row' = NumRow(to_show, num_col)
    /\ to_show' = NumRow(to_show, num_col) * num_col
    /\ axes' = Subplots(NumRow(to_show, num_col), num_col)
    /\ vi' = 0
    /\ vpc' = "loop"
    /\ UNCHANGED <<to_show_arg, num_col, n_pairs, n_pred, test, plotted, vexc>>
    /\ UNCHANGED <<mpVars, lossVars, distVars>>

\* one pass of "for i in range(to_show)" that raises nothing
Plot ==
    /\ vpc = "loop"
    /\ vi < to_show
    /\ BodyException(vi) = NoValue
    /\ plotted' = plotted + 1
    /\ vi' = vi + 1
    /\ UNCHANGED <<to_show_arg, num_col, n_pairs, n_pred, test, to_show,
                   num_row, axes, vpc, vexc>>
    /\ UNCHANGED <<mpVars, lossVars, distVars>>

\* a pass that raises: the exception leaves visualize
PlotRaise ==
    /\ vpc = "loop"
    /\ vi < to_show
    /\ BodyException(vi) # NoValue
    /\ plotted' = IF Drawn(vi) THEN plotted + 1 ELSE plotted
    /\ vexc' = BodyException(vi)
    /\ vpc' = "raised"
    /\ UNCHANGED <<to_show_arg, num_col, n_pairs, n_pred, test, to_show,
                   num_row, axes, vi>>
    /\ UNCHANGED <<mpVars, lossVars, distVars>>

\* the loop is exhausted: plt.tight_layout(...) and plt.show()
Show ==
    /\ vpc = "loop"
    /\ vi >= to_show
    /\ vpc' = "shown"
    /\ UNCHANGED <<to_show_arg, num_col, n_pairs, n_pred, test, to_show,
                   num_row, axes, vi, plotted, vexc>>
    /\ UNCHANGED <<mpVars, lossVars, distVars>>

VisNext ==
    \/ Layout
    \/ Plot
    \/ PlotRaise
    \/ Show

VisSpec == VisInit /\ [][VisNext]_vars

\* to_show trimmed to the largest multiple of num_col not above it, or
\* raised to num_col when it is below num_col
WholeRows(ts, nc) ==
    IF ts >= nc
    THEN CHOOSE m \in 1..ts : m % nc = 0 /\ m <= ts /\ ts < m + nc
    ELSE nc

\* pairs, labels and predictions hold an entry for every pair to plot
EnoughToPlot ==
    /\ n_pairs >= WholeRows(to_show_arg, num_col)
    /\ test => n_pred >= WholeRows(to_show_arg, num_col)

\* visualize ended and plotted whole rows: num_row * num_col pairs, a
\* positive multiple of num_col, to_show trimmed or raised as documented
PlottedWholeRows ==
    /\ vpc # "raised"
    /\ vpc = "shown" =>
          /\ plotted = num_row * num_col
          /\ num_row >= 1
          /\ plotted = WholeRows(to_show_arg, num_col)
          /\ to_show_arg < num_col => (num_row = 1 /\ plotted = num_col)

(* C12: for all positive to_show and num_col, visualize plots exactly       *)
(* num_row * num_col pairs, a positive multiple of num_col: to_show trimmed *)
(* to the largest multiple of num_col not above it when to_show >= num_col, *)
(* and raised to num_col (num_row = 1) when to_show < num_col.  Stated for  *)
(* the calls that pass that many pairs, labels and predictions.             *)
C12_PlotsWholeRows == EnoughToPlot => PlottedWholeRows

(* C12 for num_col >= 2: there the axes returned by plt.subplots have the   *)
(* number of dimensions the loop subscripts them with.                      *)
C12_FromTwoColumns_PlotsWholeRows ==
    (EnoughToPlot /\ num_col >= 2) => PlottedWholeRows

\* a call with to_show below num_col and one with to_show trimmed ended
\* after plotting whole rows
C12_FromTwoColumns_Witness ==
    /\ vpc = "shown"
    /\ num_col = 3
    /\ to_show_arg = 4
    /\ plotted = 3

====
